---- MODULE Spec2Model ----
(***************************************************************************)
(* get_dir_hash: deterministic directory hashing with glob ignores.        *)
(*                                                                         *)
(* Strings are sequences of Unicode code points (the byte order of UTF-8   *)
(* is the order of the code points).  A code unit of an OS file name that  *)
(* is not valid UTF-8 is a negative number.  A path is a sequence of       *)
(* components.  The content of a file is an identifier: two files have the *)
(* same bytes exactly when they have the same identifier.  BLAKE3 is       *)
(* taken to be collision-free: a digest is the tagged input it was         *)
(* computed from.                                                          *)
(***************************************************************************)
EXTENDS Integers, Sequences, FiniteSets, TLC

(* ------------------------------------------------------------------ *)
(* Bounds of the model                                                 *)
(* ------------------------------------------------------------------ *)
MaxFiles == 2

(* ------------------------------------------------------------------ *)
(* Bytes and constants of the record format                            *)
(* ------------------------------------------------------------------ *)
ReplacementChar == 65533
Slash == 47
Backslash == 92

B(n) == <<"b", n>>

DomainTag ==
  << B(103), B(101), B(116), B(95), B(100), B(105), B(114), B(95),
     B(104), B(97), B(115), B(104), B(45), B(118), B(49), B(0) >>

FileTag == << B(70), B(0) >>

MetaTag == << B(0), B(77), B(0) >>

DotIgnoreName ==
  << 46, 103, 101, 116, 95, 100, 105, 114, 95, 104, 97, 115, 104, 95,
     105, 103, 110, 111, 114, 101 >>

(* ------------------------------------------------------------------ *)
(* Strings                                                             *)
(* ------------------------------------------------------------------ *)
None == << >>
Some(x) == << x >>
Ok(v) == [ok |-> TRUE, v |-> v]
Err(k) == [ok |-> FALSE, v |-> k]

IsPrefix(p, s) ==
  /\ Len(p) <= Len(s)
  /\ \A i \in 1..Len(p) : p[i] = s[i]

\* Ord for str: lexicographic on bytes; -1 less, 0 equal, 1 greater
StrCmp(a, b) ==
  LET n == IF Len(a) < Len(b) THEN Len(a) ELSE Len(b)
      D == {i \in 1..n : a[i] # b[i]}
  IN  IF D = {}
        THEN IF Len(a) < Len(b) THEN -1 ELSE IF Len(a) > Len(b) THEN 1 ELSE 0
        ELSE LET i == CHOOSE j \in D : \A k \in D : j <= k
             IN  IF a[i] < b[i] THEN -1 ELSE 1

ToAsciiLowercase(s) ==
  [i \in 1..Len(s) |-> IF s[i] >= 65 /\ s[i] <= 90 THEN s[i] + 32 ELSE s[i]]

\* str::to_lowercase on the code points of the model: ASCII and Latin-1
ToLowercase(s) ==
  [i \in 1..Len(s) |->
     IF \/ (s[i] >= 65 /\ s[i] <= 90)
        \/ (s[i] >= 192 /\ s[i] <= 222 /\ s[i] # 215)
       THEN s[i] + 32 ELSE s[i]]

ToStringLossy(s) ==
  [i \in 1..Len(s) |-> IF s[i] < 0 THEN ReplacementChar ELSE s[i]]

\* str::replace('\\', "/")
ReplaceBackslash(s) ==
  [i \in 1..Len(s) |-> IF s[i] = Backslash THEN Slash ELSE s[i]]

IsSpace(c) == c \in {32, 9, 13}

RECURSIVE TrimStart(_)
TrimStart(s) ==
  IF s # << >> /\ IsSpace(Head(s)) THEN TrimStart(Tail(s)) ELSE s

RECURSIVE TrimEnd(_)
TrimEnd(s) ==
  IF s # << >> /\ IsSpace(s[Len(s)])
    THEN TrimEnd(SubSeq(s, 1, Len(s) - 1)) ELSE s

Trim(s) == TrimEnd(TrimStart(s))

RECURSIVE JoinSlash(_)
JoinSlash(parts) ==
  IF parts = << >> THEN << >>
  ELSE IF Len(parts) = 1 THEN parts[1]
  ELSE parts[1] \o << Slash >> \o JoinSlash(Tail(parts))

(* ------------------------------------------------------------------ *)
(* Path normalisation                                                  *)
(* ------------------------------------------------------------------ *)
Normal(s) == [c |-> "Normal", s |-> s]
CurDir == [c |-> "CurDir", s |-> << >>]
ParentDir == [c |-> "ParentDir", s |-> << >>]

RECURSIVE UnixParts(_, _)
UnixParts(p, parts) ==
  IF p = << >> THEN parts
  ELSE LET c == Head(p)
       IN  IF c.c = "CurDir" THEN UnixParts(Tail(p), parts)
           ELSE IF c.c = "ParentDir"
             THEN UnixParts(Tail(p),
                    IF parts = << >> THEN parts
                    ELSE SubSeq(parts, 1, Len(parts) - 1))
           ELSE IF c.c = "Normal"
             THEN UnixParts(Tail(p), Append(parts, ToStringLossy(c.s)))
           ELSE UnixParts(Tail(p), parts)

path_to_unix_string(p) == JoinSlash(UnixParts(p, << >>))

\* the prefix is checked and not removed
make_rel_unix_NoStrip(root, path) ==
  IF IsPrefix(root, path) THEN Some(path_to_unix_string(path)) ELSE None

make_rel_unix(root, path) ==
  IF IsPrefix(root, path)
    THEN Some(path_to_unix_string(SubSeq(path, Len(root) + 1, Len(path))))
    ELSE None

cmp_case_insensitive(a, b) ==
  StrCmp(ToAsciiLowercase(a), ToAsciiLowercase(b))

(* ------------------------------------------------------------------ *)
(* Globs (globset with default options: '*' and '?' also match '/')    *)
(* ------------------------------------------------------------------ *)
\* Glob::new fails on an unclosed character class
GlobNew(pat) ==
  IF \E i \in 1..Len(pat) :
       pat[i] = 91 /\ ~ \E j \in (i + 1)..Len(pat) : pat[j] = 93
    THEN Err("InvalidInput") ELSE Ok(pat)

RECURSIVE GlobMatch(_, _)
GlobMatch(pat, s) ==
  IF pat = << >> THEN s = << >>
  ELSE IF Head(pat) = 42
    THEN \/ GlobMatch(Tail(pat), s)
         \/ (s # << >> /\ GlobMatch(pat, Tail(s)))
  ELSE IF Head(pat) = 63
    THEN s # << >> /\ GlobMatch(Tail(pat), Tail(s))
  ELSE s # << >> /\ Head(s) = Head(pat) /\ GlobMatch(Tail(pat), Tail(s))

\* any compiled pattern makes every path match
is_match_NonEmpty(globset, rel) == globset # << >>

\* GlobSet::is_match
is_match(globset, rel) == \E i \in 1..Len(globset) : GlobMatch(globset[i], rel)

(* ------------------------------------------------------------------ *)
(* The file system seen by one call                                    *)
(* ------------------------------------------------------------------ *)
\* A tree is a function from relative paths (sequences of raw file names)
\* to [kind, content, mode, mtime].  kind is "file", "symlink" (a link to
\* a regular file) or "broken" (a dangling link).  A file can be opened
\* when its mode has the read bits.  The same tree is present under
\* both roots.
Root1 == << Normal(<<114>>) >>
Root2 == << Normal(<<115>>), Normal(<<116>>) >>
Roots == {Root1, Root2}
ExtPath == << Normal(<<101>>), Normal(<<105>>) >>

Components(rel) == [i \in 1..Len(rel) |-> Normal(rel[i])]
RawNames(p) == [i \in 1..Len(p) |-> p[i].s]

\* text of a file, by content identifier, as str::lines yields it
Lines(content) ==
  CASE content = 1 -> << <<113>> >>
    [] content = 2 -> << <<113>>, <<122>> >>
    [] content = 3 -> << <<35, 32, 99>>, <<33, 113>>, << >>, <<32, 97, 32>> >>
    [] OTHER -> << <<91>> >>

Lookup(path, fs, ext) ==
  IF \E r \in Roots : IsPrefix(r, path)
    THEN LET r == CHOOSE q \in Roots : IsPrefix(q, path)
             rel == RawNames(SubSeq(path, Len(r) + 1, Len(path)))
         IN  IF rel \in DOMAIN fs THEN Some(fs[rel]) ELSE None
  ELSE IF path = ExtPath /\ ext.exists THEN Some(ext.file)
  ELSE None

\* Path::is_file (follows links)
PathIsFile(path, fs, ext) ==
  LET x == Lookup(path, fs, ext)
  IN  x # None /\ x[1].kind \in {"file", "symlink"}

\* File::open followed by reading to the end
ReadAll(path, fs, ext) ==
  LET x == Lookup(path, fs, ext)
  IN  IF x # None /\ x[1].kind \in {"file", "symlink"} /\ x[1].mode # 0
        THEN Ok(x[1].content) ELSE Err("Io")

\* fs::metadata (follows links)
FsMetadata(path, fs, ext) ==
  LET x == Lookup(path, fs, ext)
  IN  IF x # None /\ x[1].kind \in {"file", "symlink"}
        THEN Ok([mode |-> x[1].mode, mtime |-> x[1].mtime])
        ELSE Err("Io")

(* ------------------------------------------------------------------ *)
(* Pattern matcher                                                     *)
(* ------------------------------------------------------------------ *)
RECURSIVE LoadLines(_, _)
LoadLines(lines, builder) ==
  IF lines = << >> THEN Ok(builder)
  ELSE LET line == Trim(Head(lines))
       IN  IF line = << >> \/ Head(line) = 35
             THEN LoadLines(Tail(lines), builder)
           ELSE IF Head(line) = 33
             THEN LoadLines(Tail(lines), builder)
           ELSE LET g == GlobNew(ReplaceBackslash(line))
                IN  IF g.ok
                      THEN LoadLines(Tail(lines), Append(builder, g.v))
                      ELSE g

load_patterns_file(path, builder, fs, ext) ==
  LET txt == ReadAll(path, fs, ext)
  IN  IF txt.ok THEN LoadLines(Lines(txt.v), builder) ELSE txt

RECURSIVE LoadIgnoreFiles(_, _, _, _)
LoadIgnoreFiles(paths, builder, fs, ext) ==
  IF paths = << >> THEN Ok(builder)
  ELSE IF PathIsFile(Head(paths), fs, ext)
    THEN LET r == load_patterns_file(Head(paths), builder, fs, ext)
         IN  IF r.ok THEN LoadIgnoreFiles(Tail(paths), r.v, fs, ext) ELSE r
  ELSE LoadIgnoreFiles(Tail(paths), builder, fs, ext)

RECURSIVE AddInline(_, _)
AddInline(pats, builder) ==
  IF pats = << >> THEN Ok(builder)
  ELSE LET g == GlobNew(ReplaceBackslash(Head(pats)))
       IN  IF g.ok THEN AddInline(Tail(pats), Append(builder, g.v)) ELSE g

\* the root-level file is loaded without the is_file test
build_globset_NoIsFile(root, opts, fs, ext) ==
  LET f == Append(root, Normal(DotIgnoreName))
      b1 == IF opts.load_dot_get_dir_hash_ignore
              THEN load_patterns_file(f, << >>, fs, ext)
              ELSE Ok(<< >>)
      b2 == IF b1.ok THEN LoadIgnoreFiles(opts.ignore_files, b1.v, fs, ext)
            ELSE b1
  IN  IF b2.ok THEN AddInline(opts.ignore_patterns, b2.v) ELSE b2

build_globset(root, opts, fs, ext) ==
  LET f == Append(root, Normal(DotIgnoreName))
      b1 == IF opts.load_dot_get_dir_hash_ignore /\ PathIsFile(f, fs, ext)
              THEN load_patterns_file(f, << >>, fs, ext)
              ELSE Ok(<< >>)
      b2 == IF b1.ok THEN LoadIgnoreFiles(opts.ignore_files, b1.v, fs, ext)
            ELSE b1
  IN  IF b2.ok THEN AddInline(opts.ignore_patterns, b2.v) ELSE b2

(* ------------------------------------------------------------------ *)
(* Tree enumerator                                                     *)
(* ------------------------------------------------------------------ *)
\* The walk visits the root, then the paths of the tree in the order the
\* file system lists them, each directory before its content.
RECURSIVE WalkItems(_)
WalkItems(order) ==
  IF order = << >> THEN << >>
  ELSE LET p == Head(order)
       IN  (IF Len(p) > 1 THEN << SubSeq(p, 1, Len(p) - 1) >> ELSE << >>)
           \o << p >> \o WalkItems(Tail(order))

DirEntry(path, is_file) == [ok |-> TRUE, path |-> path, is_file |-> is_file]
WalkError == [ok |-> FALSE, path |-> << >>, is_file |-> FALSE]

\* what the WalkDir iterator yields for one item: entry.file_type() is
\* the type of the link unless links are followed
WalkEntries(root, rootState, item, fs, follow_symlinks) ==
  LET path == root \o Components(item)
  IN  IF item = << >>
        THEN IF rootState = "missing" THEN << WalkError >>
             ELSE IF rootState = "unlistable"
               THEN << DirEntry(path, FALSE), WalkError >>
             ELSE << DirEntry(path, FALSE) >>
      ELSE IF rootState # "ok" THEN << >>
      ELSE IF item \in DOMAIN fs
        THEN LET k == fs[item].kind
             IN  IF k = "file" THEN << DirEntry(path, TRUE) >>
                 ELSE IF ~ follow_symlinks THEN << DirEntry(path, FALSE) >>
                 ELSE IF k = "symlink" THEN << DirEntry(path, TRUE) >>
                 ELSE << WalkError >>
      ELSE IF \E q \in DOMAIN fs : Len(q) > Len(item) /\ IsPrefix(item, q)
        THEN << DirEntry(path, FALSE) >>
      ELSE << >>

\* the ignore patterns are not applied
WalkStep_NoIgnore(files, entry, root, globset) ==
  IF ~ entry.ok THEN files
  ELSE IF ~ entry.is_file THEN files
  ELSE LET rel == make_rel_unix(root, entry.path)
       IN  IF rel = None THEN files
           ELSE Append(files, << rel[1], entry.path >>)

\* body of the loop over the walker, lines 65-92
WalkStep(files, entry, root, globset) ==
  IF ~ entry.ok THEN files
  ELSE IF ~ entry.is_file THEN files
  ELSE LET rel == make_rel_unix(root, entry.path)
       IN  IF rel = None THEN files
           ELSE IF is_match(globset, rel[1]) THEN files
           ELSE Append(files, << rel[1], entry.path >>)

(* ------------------------------------------------------------------ *)
(* Deterministic orderer                                               *)
(* ------------------------------------------------------------------ *)
FileCmp(a, b, case_sensitive_paths) ==
  IF case_sensitive_paths THEN StrCmp(a[1], b[1])
  ELSE cmp_case_insensitive(a[1], b[1])

\* slice::sort_by is a stable sort
RECURSIVE SortBy(_, _)
SortBy(files, cs) ==
  IF files = << >> THEN << >>
  ELSE LET n == Len(files)
           rest == SortBy(SubSeq(files, 1, n - 1), cs)
           x == files[n]
           k == Cardinality({i \in 1..Len(rest) : FileCmp(rest[i], x, cs) <= 0})
       IN  SubSeq(rest, 1, k) \o << x >> \o SubSeq(rest, k + 1, Len(rest))

(* ------------------------------------------------------------------ *)
(* Digest composer                                                     *)
(* ------------------------------------------------------------------ *)
Bytes(s) == [i \in 1..Len(s) |-> B(s[i])]

\* Hasher::finalize of a fresh hasher fed with the file's bytes
ContentDigest(content) == << <<"digest", content>> >>

\* the modification time is left out of the frame
feed_metadata_NoMtime(out, md) ==
  out \o MetaTag \o << <<"mode", md.mode>> >>

feed_metadata(out, md) ==
  out \o MetaTag \o << <<"mode", md.mode>> >>
      \o (IF md.mtime >= 0
            THEN << <<"secs", md.mtime>>, <<"nanos", 0>> >>
            ELSE << >>)

\* the path is left out of the record
FrameRecord_NoPath(out, rel, content, case_sensitive_paths) ==
  out \o FileTag \o << B(0) >> \o ContentDigest(content)

\* lines 112-119
FrameRecord(out, rel, content, case_sensitive_paths) ==
  out \o FileTag
      \o (IF case_sensitive_paths THEN Bytes(rel) ELSE Bytes(ToLowercase(rel)))
      \o << B(0) >>
      \o ContentDigest(content)

\* lines 121-125
FrameMetadata(out, path, include_metadata, fs, ext) ==
  IF include_metadata
    THEN LET md == FsMetadata(path, fs, ext)
         IN  IF md.ok THEN feed_metadata(out, md.v) ELSE out
    ELSE out

hex_lower(digest) == << "hex", digest >>
Finalize(out) == << "blake3", out >>

(* ------------------------------------------------------------------ *)
(* The walk loop over the entries of one directory item                *)
(* ------------------------------------------------------------------ *)
RECURSIVE Collect(_, _, _, _)
Collect(entries, files, root, globset) ==
  IF entries = << >> THEN files
  ELSE Collect(Tail(entries), WalkStep(files, Head(entries), root, globset),
               root, globset)

(* ------------------------------------------------------------------ *)
(* State                                                               *)
(* ------------------------------------------------------------------ *)
VARIABLES
  root,       \* the directory being hashed
  rootState,  \* "ok", "missing" or "unlistable"
  fs,         \* the tree under the root
  ext,        \* the pattern file outside the tree
  opts,       \* Options
  order,      \* the order in which the file system lists the tree
  pc,         \* position of the call: start, walk, hash, frame, done
  globset,    \* compiled patterns
  todo,       \* what the walker has still to visit
  files,      \* Vec<(String, PathBuf)>
  idx,        \* position of the loop over files
  inner,      \* content read from the current file
  out,        \* input fed to the outer hasher so far
  result,     \* value returned to the caller
  opened,     \* paths opened for hashing
  prev,       \* the previous call: its world and what it returned
  lastOp      \* the change made since the previous call

world == << root, rootState, fs, ext, opts, order >>
run == << pc, globset, todo, files, idx, inner, out, result, opened >>
hist == << prev, lastOp >>
vars == << root, rootState, fs, ext, opts, order, pc, globset, todo, files,
           idx, inner, out, result, opened, prev, lastOp >>

NoResult == [ok |-> FALSE, v |-> "none"]
NoOp == [op |-> "none", p |-> << >>, q |-> << >>]
NoPrev == [valid |-> FALSE]

(* ------------------------------------------------------------------ *)
(* Inputs                                                              *)
(* ------------------------------------------------------------------ *)
PathLowerA == << <<97>> >>
PathUpperA == << <<65>> >>
PathUpperAuml == << <<196>> >>
PathLowerAuml == << <<228>> >>
PathTimes == << <<215>> >>
PathBad1 == << <<-1>> >>
PathNested == << <<100>>, <<97>> >>
PathDot == << DotIgnoreName >>

RunPaths == { PathLowerA, PathNested, PathDot }

PatA == <<97>>
PatDotStar == <<46, 42>>
PatNested == <<100, 92, 97>>
PatNothing == <<113>>
PatBad == <<91>>

FileRec(k, c, m, t) == [kind |-> k, content |-> c, mode |-> m, mtime |-> t]

Trees(paths, kinds, contents, mtimes) ==
  UNION { [S -> {FileRec(k, c, 420, t) : k \in kinds, c \in contents, t \in mtimes}] :
            S \in {T \in SUBSET paths : Cardinality(T) <= MaxFiles} }

Orders(S) ==
  {o \in [1..Cardinality(S) -> S] : \A i, j \in 1..Cardinality(S) : o[i] = o[j] => i = j}

MkOpts(fl, im, cs, pats, ifiles, dot) ==
  [follow_symlinks |-> fl, include_metadata |-> im, case_sensitive_paths |-> cs,
   ignore_patterns |-> pats, ignore_files |-> ifiles,
   load_dot_get_dir_hash_ignore |-> dot]

ExtFile(c) == [exists |-> TRUE, file |-> FileRec("file", c, 420, 1)]
NoExtFile == [exists |-> FALSE, file |-> FileRec("file", 1, 420, 1)]

InitCall ==
  /\ pc = "start"
  /\ globset = << >>
  /\ todo = << >>
  /\ files = << >>
  /\ idx = 0
  /\ inner = 0
  /\ out = << >>
  /\ result = NoResult
  /\ opened = {}
  /\ prev = NoPrev
  /\ lastOp = NoOp

(* ------------------------------------------------------------------ *)
(* get_dir_hash, step by step, while other processes change the tree   *)
(* ------------------------------------------------------------------ *)
Init ==
  /\ root = Root1
  /\ rootState \in {"ok", "missing", "unlistable"}
  /\ fs \in Trees(RunPaths, {"file", "symlink", "broken"}, {1, 4}, {1})
  /\ rootState # "ok" => fs = << >>
  /\ \A p \in DOMAIN fs : p # PathDot => fs[p].content = 1
  /\ ext \in {ExtFile(1), NoExtFile}
  /\ opts \in {MkOpts(fl, im, TRUE, pats, ifiles, TRUE) :
                 fl \in BOOLEAN, im \in BOOLEAN,
                 pats \in {<< >>, << PatA >>, << PatBad >>},
                 ifiles \in {<< >>, << ExtPath >>}}
  /\ order \in Orders(DOMAIN fs)
  /\ InitCall

\* lines 55-63
Start ==
  /\ pc = "start"
  /\ LET g == build_globset(root, opts, fs, ext)
     IN  IF g.ok
           THEN /\ globset' = g.v
                /\ todo' = << << >> >> \o WalkItems(order)
                /\ files' = << >>
                /\ pc' = "walk"
                /\ UNCHANGED result
           ELSE /\ result' = Err(g.v)
                /\ pc' = "done"
                /\ UNCHANGED << globset, todo, files >>
  /\ UNCHANGED << world, idx, inner, out, opened, hist >>

\* lines 65-92, one directory entry
WalkNext ==
  /\ pc = "walk"
  /\ todo # << >>
  /\ files' = Collect(WalkEntries(root, rootState, Head(todo), fs,
                                  opts.follow_symlinks),
                      files, root, globset)
  /\ todo' = Tail(todo)
  /\ UNCHANGED << world, pc, globset, idx, inner, out, result, opened, hist >>

\* lines 94-105
Sort ==
  /\ pc = "walk"
  /\ todo = << >>
  /\ files' = SortBy(files, opts.case_sensitive_paths)
  /\ out' = DomainTag
  /\ idx' = 1
  /\ pc' = "hash"
  /\ UNCHANGED << world, globset, todo, inner, result, opened, hist >>

\* a file that cannot be read is skipped
StreamFile_SkipOnError ==
  /\ pc = "hash"
  /\ idx <= Len(files)
  /\ LET r == ReadAll(files[idx][2], fs, ext)
     IN  /\ opened' = opened \cup {files[idx][2]}
         /\ IF r.ok
              THEN /\ inner' = r.v
                   /\ pc' = "frame"
                   /\ UNCHANGED idx
              ELSE /\ idx' = idx + 1
                   /\ UNCHANGED << inner, pc >>
  /\ UNCHANGED << world, globset, todo, files, out, result, hist >>

\* lines 108-110
StreamFile ==
  /\ pc = "hash"
  /\ idx <= Len(files)
  /\ LET r == ReadAll(files[idx][2], fs, ext)
     IN  /\ opened' = opened \cup {files[idx][2]}
         /\ IF r.ok
              THEN /\ inner' = r.v
                   /\ pc' = "frame"
                   /\ UNCHANGED result
              ELSE /\ result' = Err(r.v)
                   /\ pc' = "done"
                   /\ UNCHANGED inner
  /\ UNCHANGED << world, globset, todo, files, idx, out, hist >>

\* lines 112-125
Frame ==
  /\ pc = "frame"
  /\ out' = FrameMetadata(
              FrameRecord(out, files[idx][1], inner, opts.case_sensitive_paths),
              files[idx][2], opts.include_metadata, fs, ext)
  /\ idx' = idx + 1
  /\ pc' = "hash"
  /\ UNCHANGED << world, globset, todo, files, inner, result, opened, hist >>

\* lines 128-129
Finish ==
  /\ pc = "hash"
  /\ idx > Len(files)
  /\ result' = Ok(hex_lower(Finalize(out)))
  /\ pc' = "done"
  /\ UNCHANGED << world, globset, todo, files, idx, inner, out, opened, hist >>

\* another process deletes a file during the call
EnvRemove ==
  /\ pc # "done"
  /\ \E p \in DOMAIN fs :
       /\ fs' = [q \in DOMAIN fs \ {p} |-> fs[q]]
       /\ order' = SelectSeq(order, LAMBDA q : q # p)
  /\ UNCHANGED << root, rootState, ext, opts, run, hist >>

\* another process takes the read permission of a file away
EnvChmod ==
  /\ pc # "done"
  /\ \E p \in DOMAIN fs :
       /\ fs[p].mode # 0
       /\ fs' = [fs EXCEPT ![p].mode = 0]
  /\ UNCHANGED << root, rootState, ext, opts, order, run, hist >>

Next ==
  \/ Start
  \/ WalkNext
  \/ Sort
  \/ StreamFile
  \/ Frame
  \/ Finish
  \/ EnvRemove
  \/ EnvChmod

Spec == Init /\ [][Next]_vars

(* ------------------------------------------------------------------ *)
(* Two calls on two snapshots that differ by one change                *)
(* ------------------------------------------------------------------ *)
InitWith(paths, contents, mtimes, options) ==
  /\ root = Root1
  /\ rootState = "ok"
  /\ \E t \in mtimes : fs \in Trees(paths, {"file"}, contents, {t})
  /\ ext = ExtFile(1)
  /\ opts \in options
  /\ order \in Orders(DOMAIN fs)
  /\ InitCall

Snapshot ==
  [valid |-> TRUE, fs |-> fs, globset |-> globset, files |-> files,
   result |-> result]

\* remember the finished call and start another one
Again(op, p, q) ==
  /\ pc = "done"
  /\ ~ prev.valid
  /\ prev' = Snapshot
  /\ lastOp' = [op |-> op, p |-> p, q |-> q]
  /\ pc' = "start"
  /\ globset' = << >>
  /\ files' = << >>
  /\ out' = << >>
  /\ opened' = {}
  /\ result' = NoResult
  /\ todo' = << >>
  /\ idx' = 0
  /\ inner' = 0
  /\ UNCHANGED rootState

\* o with x put at position k
InsertAt(o, k, x) == SubSeq(o, 1, k - 1) \o << x >> \o SubSeq(o, k, Len(o))
Without(o, x) == SelectSeq(o, LAMBDA y : y # x)

ChangeContent ==
  \E p \in DOMAIN fs : \E c \in {1, 2, 3} :
    /\ c # fs[p].content
    /\ fs' = [fs EXCEPT ![p].content = c]
    /\ Again("content", p, << >>)
    /\ UNCHANGED << root, ext, opts, order >>

Chmod ==
  \E p \in DOMAIN fs :
    /\ fs' = [fs EXCEPT ![p].mode = 0]
    /\ Again("chmod", p, << >>)
    /\ UNCHANGED << root, ext, opts, order >>

Touch ==
  \E p \in DOMAIN fs : \E t \in {-2, -1, 1, 2} :
    /\ t # fs[p].mtime
    /\ fs' = [fs EXCEPT ![p].mtime = t]
    /\ Again("touch", p, << >>)
    /\ UNCHANGED << root, ext, opts, order >>

Rename(paths) ==
  \E p \in DOMAIN fs : \E q \in paths \ DOMAIN fs :
    /\ fs' = [x \in (DOMAIN fs \ {p}) \cup {q} |-> IF x = q THEN fs[p] ELSE fs[x]]
    /\ \E k \in 1..Len(order) : order' = InsertAt(Without(order, p), k, q)
    /\ Again("rename", p, q)
    /\ UNCHANGED << root, ext, opts >>

AddFile(paths) ==
  /\ Cardinality(DOMAIN fs) < MaxFiles
  /\ \E p \in paths \ DOMAIN fs : \E c \in {1, 3} :
       /\ fs' = [x \in DOMAIN fs \cup {p} |->
                   IF x = p THEN FileRec("file", c, 420, 1) ELSE fs[x]]
       /\ \E k \in 1..(Len(order) + 1) : order' = InsertAt(order, k, p)
       /\ Again("add", p, << >>)
  /\ UNCHANGED << root, ext, opts >>

RemoveFile ==
  \E p \in DOMAIN fs :
    /\ fs' = [x \in DOMAIN fs \ {p} |-> fs[x]]
    /\ order' = Without(order, p)
    /\ Again("remove", p, << >>)
    /\ UNCHANGED << root, ext, opts >>

AddInlinePattern ==
  \E pat \in {PatA, PatNothing, PatNested} :
    /\ opts' = [opts EXCEPT !.ignore_patterns = Append(@, pat)]
    /\ Again("pattern", << >>, pat)
    /\ UNCHANGED << root, fs, ext, order >>

ChangeExt ==
  \E c \in {2, 3} :
    /\ ext' = ExtFile(c)
    /\ Again("ext", << >>, << >>)
    /\ UNCHANGED << root, fs, opts, order >>

\* the file system lists the same tree in another order
Reorder ==
  \E o \in Orders(DOMAIN fs) :
    /\ o # order
    /\ order' = o
    /\ Again("reorder", << >>, << >>)
    /\ UNCHANGED << root, fs, ext, opts >>

\* the same tree is hashed under the other root
MoveRoot ==
  /\ root' = Root2
  /\ Again("root", << >>, << >>)
  /\ UNCHANGED << fs, ext, opts, order >>

Flags(pats) ==
  {MkOpts(FALSE, im, cs, ps, << >>, TRUE) :
     im \in BOOLEAN, cs \in BOOLEAN, ps \in pats}

\* the listing order changes
OrderPaths == {PathLowerA, PathUpperA, PathBad1, PathNested, PathDot}
InitOrder == InitWith(OrderPaths, {1, 2}, {1}, Flags({<< >>, << PatA >>}))
NextOrder ==
  \/ Start
  \/ WalkNext
  \/ Sort
  \/ StreamFile
  \/ Frame
  \/ Finish
  \/ Reorder
SpecOrder == InitOrder /\ [][NextOrder]_vars

\* a file is rewritten or renamed
EditPaths == {PathLowerA, PathUpperA, PathUpperAuml, PathLowerAuml, PathTimes}
InitEdit == InitWith(EditPaths, {1, 2}, {1}, Flags({<< >>, << PatA >>}))
NextEdit ==
  \/ Start
  \/ WalkNext
  \/ Sort
  \/ StreamFile
  \/ Frame
  \/ Finish
  \/ ChangeContent
  \/ Rename(EditPaths)
SpecEdit == InitEdit /\ [][NextEdit]_vars

\* a modification time changes
MetaPaths == {PathLowerA, PathUpperA, PathNested}
InitMeta == InitWith(MetaPaths, {1, 2}, {-1, 1}, Flags({<< >>, << PatA >>}))
NextMeta ==
  \/ Start
  \/ WalkNext
  \/ Sort
  \/ StreamFile
  \/ Frame
  \/ Finish
  \/ Touch
SpecMeta == InitMeta /\ [][NextMeta]_vars

\* ignored files and ignore patterns change
IgnorePaths == {PathLowerA, PathUpperA, PathNested, PathDot}
IgnoreOptions ==
  {MkOpts(FALSE, im, TRUE, ps, ifiles, dot) :
     im \in BOOLEAN,
     ps \in {<< >>, << PatA >>, << PatDotStar >>, << PatNested >>},
     ifiles \in {<< >>, << ExtPath >>},
     dot \in BOOLEAN}
InitIgnore == InitWith(IgnorePaths, {1}, {1}, IgnoreOptions)
NextIgnore ==
  \/ Start
  \/ WalkNext
  \/ Sort
  \/ StreamFile
  \/ Frame
  \/ Finish
  \/ ChangeContent
  \/ Chmod
  \/ Touch
  \/ AddFile(IgnorePaths)
  \/ RemoveFile
  \/ AddInlinePattern
  \/ ChangeExt
SpecIgnore == InitIgnore /\ [][NextIgnore]_vars

\* the tree is hashed under another root
RootPaths == {PathLowerA, PathUpperA, PathBad1, PathNested, PathDot}
InitRoot == InitWith(RootPaths, {1, 2}, {1}, Flags({<< >>, << PatNested >>}))
NextRoot ==
  \/ Start
  \/ WalkNext
  \/ Sort
  \/ StreamFile
  \/ Frame
  \/ Finish
  \/ MoveRoot
SpecRoot == InitRoot /\ [][NextRoot]_vars

(* ------------------------------------------------------------------ *)
(* Properties of one call                                              *)
(* ------------------------------------------------------------------ *)
RecordCount(o) == Cardinality({i \in 1..Len(o) : o[i][1] = "digest"})

PatternFiles ==
  (IF opts.load_dot_get_dir_hash_ignore
     THEN << Append(root, Normal(DotIgnoreName)) >> ELSE << >>)
  \o opts.ignore_files

IsBadPattern(line) ==
  LET t == Trim(line)
  IN  /\ t # << >>
      /\ Head(t) \notin {35, 33}
      /\ ~ GlobNew(ReplaceBackslash(t)).ok

BadPatternGiven ==
  \/ \E i \in 1..Len(opts.ignore_patterns) : IsBadPattern(opts.ignore_patterns[i])
  \/ \E i \in 1..Len(PatternFiles) :
       /\ PathIsFile(PatternFiles[i], fs, ext)
       /\ ReadAll(PatternFiles[i], fs, ext).ok
       /\ LET ls == Lines(ReadAll(PatternFiles[i], fs, ext).v)
          IN  \E j \in 1..Len(ls) : IsBadPattern(ls[j])

PatternFileUnreadable ==
  \E i \in 1..Len(PatternFiles) :
    /\ PathIsFile(PatternFiles[i], fs, ext)
    /\ ~ ReadAll(PatternFiles[i], fs, ext).ok

\* C8: a root that does not exist or cannot be listed makes the call
\* return an I/O error, never a digest.
C8_UnreadableRootIsFatal ==
  (pc = "done" /\ rootState # "ok") => (~ result.ok /\ result.v = "Io")

\* C9: a failure to open or read a selected file ends the call with an
\* I/O error at that file; a digest is returned only at the end, after
\* every selected file has been read and framed; a finished call has
\* returned exactly one of a digest and an error.
C9_AllOrNothing ==
  /\ pc # "done" => result = NoResult
  /\ pc = "done" => (result.ok \/ result.v \in {"Io", "InvalidInput"})
  /\ result.ok =>
       /\ idx = Len(files) + 1
       /\ RecordCount(out) = Len(files)
       /\ opened = {files[i][2] : i \in 1..Len(files)}
       /\ result.v = hex_lower(Finalize(out))
  /\ (pc = "done" /\ ~ result.ok /\ idx >= 1) =>
       /\ result.v = "Io"
       /\ idx <= Len(files)
       /\ RecordCount(out) = idx - 1
       /\ opened = {files[i][2] : i \in 1..idx}
       /\ ~ ReadAll(files[idx][2], fs, ext).ok

\* the second selected file cannot be read after the first was framed
C9_Witness ==
  /\ pc = "done"
  /\ ~ result.ok
  /\ idx = 2
  /\ RecordCount(out) = 1

\* C10 as stated: an error is a pattern that does not compile or a read
\* failure on a selected file, and nothing else.
C10_OnlyCompileAndSelectedReads ==
  (pc = "done" /\ ~ result.ok) =>
    \/ result.v = "InvalidInput"
    \/ (result.v = "Io" /\ idx \in 1..Len(files))

\* C10 amended: an error is a pattern that does not compile, a pattern
\* file that exists and cannot be read, or a read failure on a selected
\* file; entries the walk cannot read and metadata that cannot be read
\* are left out and the call returns a digest.
C10_ErrorPolicy ==
  (pc = "done" /\ ~ result.ok) =>
    \/ (result.v = "InvalidInput" /\ idx = 0 /\ BadPatternGiven)
    \/ (result.v = "Io" /\ idx = 0 /\ PatternFileUnreadable)
    \/ (result.v = "Io" /\ idx \in 1..Len(files)
          /\ ~ ReadAll(files[idx][2], fs, ext).ok)

\* a dangling link met while links are followed, a file whose metadata
\* was gone when its record was framed, and still a digest
C10_Witness ==
  /\ pc = "done"
  /\ result.ok
  /\ opts.follow_symlinks
  /\ opts.include_metadata
  /\ \E p \in DOMAIN fs : fs[p].kind = "broken"
  /\ RecordCount(out) = 1
  /\ \A i \in 1..Len(out) : out[i][1] # "mode"

(* ------------------------------------------------------------------ *)
(* Properties of two calls                                             *)
(* ------------------------------------------------------------------ *)
Compared == pc = "done" /\ prev.valid

\* the two calls returned the same io::Result
SameResult == result.ok = prev.result.ok /\ result.v = prev.result.v

RelOf(p) == path_to_unix_string(Components(p))

\* the file at p of the tree is in the list fl of selected files
Selected(fl, p) == \E i \in 1..Len(fl) : fl[i][2] = Root1 \o Components(p)

FramedPath(p) ==
  IF opts.case_sensitive_paths THEN RelOf(p) ELSE ToLowercase(RelOf(p))

\* two raw paths that differ in the case of letters only
CaseVariant(p, q) ==
  /\ p # q
  /\ Len(p) = Len(q)
  /\ \A i \in 1..Len(p) : ToLowercase(p[i]) = ToLowercase(q[i])

NoCaseClash(t) == \A x, y \in DOMAIN t : ~ CaseVariant(x, y)

\* C1: the digest of a fixed tree under fixed options is the same for
\* every order in which the walk yields the entries.
C1_OrderIndependent ==
  (Compared /\ lastOp.op = "reorder") =>
    SameResult

\* C2 as stated: the digest changes when the content of a selected file
\* changes, and when a selected file is renamed to another path that is
\* not ignored, whatever the options.
C2_SensitiveAsStated ==
  (Compared /\ prev.result.ok) =>
    /\ (lastOp.op = "content" /\ Selected(prev.files, lastOp.p))
         => ~ SameResult
    /\ (lastOp.op = "rename" /\ Selected(prev.files, lastOp.p)
          /\ Selected(files, lastOp.q))
         => ~ SameResult

\* C2 amended: the digest changes when the content of a selected file
\* changes, and when a selected file is renamed to a path that is not
\* ignored and whose framed form (normalised, and lowercased when paths
\* are not case sensitive) differs from the old one.
C2_Sensitive ==
  (Compared /\ prev.result.ok) =>
    /\ (lastOp.op = "content" /\ Selected(prev.files, lastOp.p))
         => ~ SameResult
    /\ (lastOp.op = "rename" /\ Selected(prev.files, lastOp.p)
          /\ Selected(files, lastOp.q)
          /\ FramedPath(lastOp.p) # FramedPath(lastOp.q))
         => ~ SameResult

\* one of two files renamed, paths not case sensitive, new framed path
C2_Witness ==
  /\ Compared
  /\ prev.result.ok
  /\ lastOp.op = "rename"
  /\ ~ opts.case_sensitive_paths
  /\ Len(files) = 2
  /\ Selected(prev.files, lastOp.p)
  /\ Selected(files, lastOp.q)
  /\ FramedPath(lastOp.p) # FramedPath(lastOp.q)
  /\ ~ SameResult

\* C3: on trees where no file is ignored and no two names are equal up
\* to case, changing the case of one file name leaves the digest the same
\* when paths are not case sensitive and changes it when they are.
C3_CaseFolding ==
  (/\ Compared
   /\ lastOp.op = "rename"
   /\ CaseVariant(lastOp.p, lastOp.q)
   /\ prev.result.ok
   /\ result.ok
   /\ Len(prev.files) = Cardinality(DOMAIN prev.fs)
   /\ Len(files) = Cardinality(DOMAIN fs)
   /\ NoCaseClash(prev.fs)
   /\ NoCaseClash(fs))
    => IF opts.case_sensitive_paths
         THEN ~ SameResult
         ELSE SameResult

\* C6 as stated: a change of the modification time of a selected file
\* leaves the digest the same without include_metadata and changes it
\* with include_metadata.
C6_MetadataAsStated ==
  (Compared /\ lastOp.op = "touch" /\ prev.result.ok
     /\ Selected(prev.files, lastOp.p))
    => IF opts.include_metadata
         THEN ~ SameResult
         ELSE SameResult

\* C6 amended: without include_metadata no metadata is fed to the outer
\* hasher and the digest stays the same; with include_metadata the digest
\* changes when the old or the new time is not before the Unix epoch,
\* and stays the same when both are before it.
C6_MetadataPolicy ==
  /\ (pc = "done" /\ ~ opts.include_metadata) =>
       \A i \in 1..Len(out) : out[i][1] \notin {"mode", "secs", "nanos"}
  /\ (Compared /\ lastOp.op = "touch" /\ prev.result.ok
        /\ Selected(prev.files, lastOp.p))
       => IF /\ opts.include_metadata
             /\ (prev.fs[lastOp.p].mtime >= 0 \/ fs[lastOp.p].mtime >= 0)
            THEN ~ SameResult
            ELSE SameResult

\* a time before the epoch replaced by one after it, metadata included
C6_Witness ==
  /\ Compared
  /\ lastOp.op = "touch"
  /\ opts.include_metadata
  /\ Selected(prev.files, lastOp.p)
  /\ prev.fs[lastOp.p].mtime < 0
  /\ fs[lastOp.p].mtime >= 0
  /\ result.ok
  /\ ~ SameResult

Matches(g, p) == is_match(g, RelOf(p))

IsPatternFile(p) ==
  \E i \in 1..Len(PatternFiles) : PatternFiles[i] = root \o Components(p)

IgnoredNeverHashed ==
  pc = "done" =>
    /\ \A i \in 1..Len(files) : ~ is_match(globset, files[i][1])
    /\ \A x \in opened : \E i \in 1..Len(files) : files[i][2] = x
    /\ RecordCount(out) <= Len(files)

\* the change was made to a file that matches an ignore pattern
IgnoredFileChanged ==
  \/ (lastOp.op = "add" /\ Matches(globset, lastOp.p))
  \/ (lastOp.op \in {"remove", "content", "chmod", "touch"}
        /\ Matches(prev.globset, lastOp.p))

\* C4 as stated: a file that matches an ignore pattern is not selected,
\* not opened and not framed, and adding, removing or modifying such a
\* file leaves the digest the same.
C4_IgnoredAsStated ==
  /\ IgnoredNeverHashed
  /\ (Compared /\ IgnoredFileChanged
        /\ lastOp.op \in {"add", "remove", "content"}) => SameResult

\* C4 amended: ... adding, removing or modifying such a file leaves the
\* digest the same unless the file is one the patterns are loaded from.
C4_IgnoredNoEffect ==
  /\ IgnoredNeverHashed
  /\ (Compared /\ IgnoredFileChanged /\ ~ IsPatternFile(lastOp.p))
       => SameResult

\* an ignored file was added to a tree with a selected file
C4_Witness ==
  /\ Compared
  /\ lastOp.op = "add"
  /\ Matches(globset, lastOp.p)
  /\ ~ IsPatternFile(lastOp.p)
  /\ Len(files) >= 1
  /\ result.ok
  /\ SameResult

NoMatch(pat) ==
  \A x \in DOMAIN fs : ~ GlobMatch(ReplaceBackslash(pat), RelOf(x))

\* text c2 is text c1 with one more line, a pattern that matches no file
AddsUnrelatedLine(c1, c2) ==
  /\ Len(Lines(c2)) = Len(Lines(c1)) + 1
  /\ SubSeq(Lines(c2), 1, Len(Lines(c1))) = Lines(c1)
  /\ LET t == Trim(Lines(c2)[Len(Lines(c2))])
     IN  t # << >> /\ Head(t) \notin {35, 33}
         /\ GlobNew(ReplaceBackslash(t)).ok /\ NoMatch(t)

AddedInline == lastOp.op = "pattern" /\ NoMatch(lastOp.q)

AddedToExt ==
  /\ lastOp.op = "ext"
  /\ opts.ignore_files = << ExtPath >>
  /\ AddsUnrelatedLine(1, ext.file.content)

AddedToDotFile ==
  /\ lastOp.op = "content"
  /\ lastOp.p = PathDot
  /\ opts.load_dot_get_dir_hash_ignore
  /\ AddsUnrelatedLine(prev.fs[PathDot].content, fs[PathDot].content)

\* C5 as stated: one more pattern that matches no file of the tree leaves
\* the digest the same, through whichever source it is added.
C5_NeutralAsStated ==
  (Compared /\ (AddedInline \/ AddedToExt \/ AddedToDotFile))
    => SameResult

\* C5 amended: one more pattern that matches no file leaves the digest
\* the same when it is added inline or to a pattern file that is not
\* itself selected for hashing; added to a pattern file of the tree that
\* is selected, it changes the digest with the content of that file.
C5_UnrelatedPatternNeutral ==
  /\ (Compared /\ (AddedInline \/ AddedToExt))
       => SameResult
  /\ (Compared /\ AddedToDotFile /\ ~ Selected(prev.files, PathDot))
       => SameResult
  /\ (Compared /\ AddedToDotFile /\ Selected(prev.files, PathDot)
        /\ prev.result.ok)
       => ~ SameResult

\* a pattern added to an ignored .get_dir_hash_ignore of a tree with a
\* selected file
C5_Witness ==
  /\ Compared
  /\ AddedToDotFile
  /\ ~ Selected(prev.files, PathDot)
  /\ Len(files) >= 1
  /\ result.ok
  /\ SameResult

====
